---- MODULE Spec2Model ----
(***************************************************************************)
(* A model of the dbgtools-hexdump crate (src/src/lib.rs): asbuf, hexdump  *)
(* and hexdump_buf.  One behaviour of the model is one call of hexdump or  *)
(* of hexdump_buf; the closure `f` is observed through the log `rows` of   *)
(* its invocations.                                                        *)
(*                                                                         *)
(* Text (String, &str) is a sequence of characters, a character being a    *)
(* one-character TLA+ string.  usize is an unsigned integer of UsizeBits   *)
(* bits; `offset += 1` panics on overflow when the crate is built with     *)
(* overflow checks (the debug profile) and wraps around when it is built   *)
(* without them (the release profile).                                     *)
(***************************************************************************)
EXTENDS Integers, Sequences, FiniteSets, TLC

(* ------------------------------ bounds -------------------------------- *)

\* Width of usize in bits.  It is the target's pointer width; 16 is the
\* narrowest one Rust supports, and keeps every value inside TLC's integers.
UsizeBits == 16

\* Longest byte slice handed to hexdump_buf (besides the example's).
MaxLen == 3

\* Largest Config.cols tried (besides 0 and the default).
MaxCols == 3

\* Number of bytes of memory a dumped object can lie in.
MemSize == 3

(* ------------------------- program constants -------------------------- *)

\* Config::default(): cols: 16, offs: 0.
DefaultCols == 16
DefaultOffs == 0

UsizeMax == 2^UsizeBits - 1

U8 == 0..255

\* examples/dumpslice.rs: let data: &[u8] = &[1, 2, 3, 4, 5, 6, 7, 8];
ExampleData == <<1, 2, 3, 4, 5, 6, 7, 8>>

(* ------------------------------ inputs -------------------------------- *)

\* Byte values on both sides of the two tests of the printable range.
TestBytes == {31, 32, 126, 127}

\* Byte values an object's memory holds.
MemBytes == {0, 65, 255}

SeqsUpTo(S, n) == UNION {[1..k -> S] : k \in 0..n}

\* The slices tried: every short sequence of test bytes, every single byte
\* value, and the example's data.
Buffers == SeqsUpTo(TestBytes, MaxLen) \cup {<<b>> : b \in U8} \cup {ExampleData}

ColsTried == (0..MaxCols) \cup {DefaultCols}

OffsTried == {DefaultOffs, 7, UsizeMax - 1, UsizeMax}

Configs == [cols : ColsTried, offs : OffsTried]

\* A reference &T: where the object lies and size_of::<T>().
Refs == {r \in [addr : 1..MemSize, size : 0..MemSize] : r.addr + r.size - 1 <= MemSize}

NoRef == [addr |-> 1, size |-> 0]

(* ------------------------------- state -------------------------------- *)

VARIABLES
  entry,            \* the function the caller called: "hexdump" or "hexdump_buf"
  overflow_checks,  \* whether the build checks integer overflow
  cfg,              \* the Config
  mem,              \* the memory the dumped object lies in (hexdump)
  obj,              \* hexdump's `buf: &T`
  buf,              \* hexdump_buf's `buf: &[u8]`
  pc,               \* where control is
  rest,             \* the slice the Chunks iterator has left
  offset,           \* `let mut offset`
  ascii,            \* `let mut ascii`
  rows,             \* the invocations of f so far: (offs, hex, ascii)
  blocks            \* the blocks handed out by the iterator so far

vars == << entry, overflow_checks, cfg, mem, obj, buf, pc, rest, offset, ascii,
           rows, blocks >>

(* ---------------------------- characters ------------------------------ *)

\* The characters U+0020..U+007E, in order.  The grave accent, which a TLA+
\* string cannot hold, is written "U+0060".
AsciiTable ==
  << " ", "!", "\"", "#", "$", "%", "&", "'", "(", ")", "*", "+", ",", "-", ".", "/",
     "0", "1", "2", "3", "4", "5", "6", "7", "8", "9", ":", ";", "<", "=", ">", "?",
     "@", "A", "B", "C", "D", "E", "F", "G", "H", "I", "J", "K", "L", "M", "N", "O",
     "P", "Q", "R", "S", "T", "U", "V", "W", "X", "Y", "Z", "[", "\\", "]", "^", "_",
     "U+0060", "a", "b", "c", "d", "e", "f", "g", "h", "i", "j", "k", "l", "m", "n", "o",
     "p", "q", "r", "s", "t", "u", "v", "w", "x", "y", "z", "{", "|", "}", "~" >>

LowerHexDigits ==
  << "0", "1", "2", "3", "4", "5", "6", "7", "8", "9", "a", "b", "c", "d", "e", "f" >>

UpperHexDigits ==
  << "0", "1", "2", "3", "4", "5", "6", "7", "8", "9", "A", "B", "C", "D", "E", "F" >>

\* char::from(u8): the character whose code point is the byte's value.
\* Outside U+0020..U+007E the character is written by its code point.
char_from(byte) ==
  IF byte \in 32..126 THEN AsciiTable[byte - 31] ELSE "U+" \o ToString(byte)

\* Variant: "{:02X}".
fmt_02x_upper(byte) == << UpperHexDigits[(byte \div 16) + 1], UpperHexDigits[(byte % 16) + 1] >>
\* format!("{:02x}", byte): two lowercase hexadecimal digits, zero padded.
fmt_02x(byte) == << LowerHexDigits[(byte \div 16) + 1], LowerHexDigits[(byte % 16) + 1] >>

\* String::from(" ").repeat(n)
repeat_space(n) == [i \in 1..n |-> " "]

(* ------------------------------- asbuf -------------------------------- *)

\* Variant: one byte fewer than size_of::<T>().
asbuf_short(m, r) == [i \in 1..(IF r.size > 0 THEN r.size - 1 ELSE 0) |-> m[r.addr + i - 1]]
\* slice::from_raw_parts(buf as *const u8, size_of::<T>())
asbuf(m, r) == [i \in 1..r.size |-> m[r.addr + i - 1]]

(* ----------------------------- hexdump_buf ---------------------------- *)

Min(a, b) == IF a < b THEN a ELSE b

\* Variant: no test of cfg.cols.
cols_is_zero_never(c) == FALSE
\* if cfg.cols == 0
cols_is_zero(c) == c.cols = 0

\* Variant: a first chunk even of an empty slice.
chunks_has_next_or_first(rest_) == rest_ # <<>> \/ rows = <<>>
\* Chunks::next: Some(..) while the remaining slice is not empty.
chunks_has_next(rest_) == rest_ # <<>>

\* Variant: the whole remaining slice as one chunk.
chunk_len_whole(rest_, n) == Len(rest_)
\* Chunks::next: the chunk is the first min(len, chunk_size) bytes.
chunk_len(rest_, n) == Min(Len(rest_), n)

\* Variant: 0x7e taken as not printable.
ascii_char_exclusive(byte) == IF byte < 32 \/ byte >= 126 THEN "." ELSE char_from(byte)
\* if *byte < 0x20 || *byte > 0x7e { '.' } else { char::from(*byte) }
ascii_char(byte) == IF byte < 32 \/ byte > 126 THEN "." ELSE char_from(byte)

\* The body of `for byte in block`: one more entry of vals, one more
\* character of ascii, and offset += 1, which overflows at usize::MAX.
for_byte(st, byte, checks) ==
  LET sum == st.offset + 1 IN
  [ vals     |-> Append(st.vals, fmt_02x(byte)),
    ascii    |-> Append(st.ascii, ascii_char(byte)),
    offset   |-> IF sum > UsizeMax
                 THEN (IF checks THEN st.offset ELSE sum % (UsizeMax + 1))
                 ELSE sum,
    panicked |-> sum > UsizeMax /\ checks ]

\* `for byte in block { .. }`, left at once by a panic.
RECURSIVE for_bytes(_, _, _)
for_bytes(st, block, checks) ==
  IF block = <<>> \/ st.panicked
  THEN st
  ELSE for_bytes(for_byte(st, Head(block), checks), Tail(block), checks)

\* Variant: no padding.
rem_none(cols, vals) == 0
\* let rem = cfg.cols - vals.len();
rem(cols, vals) == cols - Len(vals)

\* Variant: a one-space placeholder.
pad_vals_one_space(vals, n) == vals \o [i \in 1..n |-> <<" ">>]
\* vals.extend(repeat("  ".to_string()).take(rem))
pad_vals(vals, n) == vals \o [i \in 1..n |-> <<" ", " ">>]

\* ascii.push_str(&String::from(" ").repeat(rem))
pad_ascii(ascii_, n) == ascii_ \o repeat_space(n)

\* vals.join(" ")
RECURSIVE join(_, _)
join(vals, sep) ==
  IF vals = <<>> THEN <<>>
  ELSE IF Len(vals) = 1 THEN vals[1]
  ELSE vals[1] \o sep \o join(Tail(vals), sep)

\* One pass of `for block in buf.chunks(cfg.cols)` on the locals `st`
\* (the iterator's remaining slice, offset, ascii, and the sink's log).
for_block(st, cols, checks) ==
  LET n         == chunk_len(st.rest, cols)
      block     == SubSeq(st.rest, 1, n)
      this_offs == st.offset
      inner     == for_bytes([vals |-> <<>>, ascii |-> <<>>,
                              offset |-> st.offset, panicked |-> FALSE],
                             block, checks)
      r         == rem(cols, inner.vals)
      vals      == IF r > 0 THEN pad_vals(inner.vals, r) ELSE inner.vals
      ascii_    == IF r > 0 THEN pad_ascii(inner.ascii, r) ELSE inner.ascii
      hex_str   == join(vals, <<" ">>)
  IN IF inner.panicked
     THEN [st EXCEPT !.pc = "panicked", !.rest = SubSeq(st.rest, n + 1, Len(st.rest)),
                     !.offset = inner.offset, !.ascii = inner.ascii]
     ELSE [ pc     |-> "for_block",
            rest   |-> SubSeq(st.rest, n + 1, Len(st.rest)),
            offset |-> inner.offset,
            ascii  |-> ascii_,
            rows   |-> Append(st.rows, [offs |-> this_offs, hex |-> hex_str,
                                        ascii |-> ascii_]),
            blocks |-> Append(st.blocks, block) ]

\* hexdump_buf up to its loop: the test of cfg.cols, then the locals.
\* slice::chunks panics when the chunk size is 0.
enter(c, b) ==
  [ pc     |-> IF cols_is_zero(c) THEN "returned"
               ELSE IF c.cols = 0 THEN "panicked" ELSE "for_block",
    rest   |-> b,
    offset |-> c.offs,
    ascii  |-> <<>>,
    rows   |-> <<>>,
    blocks |-> <<>> ]

\* The loop from the locals `st` to its end.
RECURSIVE run_loop(_, _, _)
run_loop(st, cols, checks) ==
  IF st.pc # "for_block" THEN st
  ELSE IF chunks_has_next(st.rest)
       THEN run_loop(for_block(st, cols, checks), cols, checks)
       ELSE [st EXCEPT !.pc = "returned"]

\* A whole call hexdump_buf(c, b, f): the final locals and what f was given.
hexdump_buf_call(c, b, checks) == run_loop(enter(c, b), c.cols, checks)

locals == [pc |-> pc, rest |-> rest, offset |-> offset, ascii |-> ascii,
           rows |-> rows, blocks |-> blocks]

SetLocals(st) ==
  /\ pc' = st.pc
  /\ rest' = st.rest
  /\ offset' = st.offset
  /\ ascii' = st.ascii
  /\ rows' = st.rows
  /\ blocks' = st.blocks

Init ==
  /\ entry \in {"hexdump", "hexdump_buf"}
  /\ overflow_checks \in BOOLEAN
  /\ cfg \in Configs
  /\ IF entry = "hexdump"
     THEN /\ mem \in [1..MemSize -> MemBytes]
          /\ obj \in Refs
          /\ buf = <<>>
     ELSE /\ mem = <<>>
          /\ obj = NoRef
          /\ buf \in Buffers
  /\ pc = entry
  /\ rest = <<>>
  /\ offset = 0
  /\ ascii = <<>>
  /\ rows = <<>>
  /\ blocks = <<>>

\* hexdump: let buf = asbuf(buf); hexdump_buf(cfg, buf, f)
hexdump ==
  /\ pc = "hexdump"
  /\ buf' = asbuf(mem, obj)
  /\ pc' = "hexdump_buf"
  /\ UNCHANGED << entry, overflow_checks, cfg, mem, obj, rest, offset, ascii,
                  rows, blocks >>

\* hexdump_buf, up to the loop.
hexdump_buf ==
  /\ pc = "hexdump_buf"
  /\ SetLocals(enter(cfg, buf))
  /\ UNCHANGED << entry, overflow_checks, cfg, mem, obj, buf >>

\* One pass of the loop that ends with the call of f.
for_block_emit ==
  /\ pc = "for_block"
  /\ chunks_has_next(rest)
  /\ LET st == for_block(locals, cfg.cols, overflow_checks) IN
       /\ st.pc = "for_block"
       /\ SetLocals(st)
  /\ UNCHANGED << entry, overflow_checks, cfg, mem, obj, buf >>

\* One pass of the loop that `offset += 1` ends with a panic.
for_block_panic ==
  /\ pc = "for_block"
  /\ chunks_has_next(rest)
  /\ LET st == for_block(locals, cfg.cols, overflow_checks) IN
       /\ st.pc = "panicked"
       /\ SetLocals(st)
  /\ UNCHANGED << entry, overflow_checks, cfg, mem, obj, buf >>

\* The iterator is exhausted: hexdump_buf returns.
for_end ==
  /\ pc = "for_block"
  /\ ~chunks_has_next(rest)
  /\ pc' = "returned"
  /\ UNCHANGED << entry, overflow_checks, cfg, mem, obj, buf, rest, offset,
                  ascii, rows, blocks >>

Next == hexdump \/ hexdump_buf \/ for_block_emit \/ for_block_panic \/ for_end

Spec == Init /\ [][Next]_vars

(* ------------------------------ claims ------------------------------- *)

Ceil(n, c) == (n + c - 1) \div c

RECURSIVE Flatten(_)
Flatten(ss) == IF ss = <<>> THEN <<>> ELSE Head(ss) \o Flatten(Tail(ss))

\* The number of real bytes of row i.
RealBytes(i) == Len(blocks[i])

InHexdumpBuf == pc \in {"for_block", "returned", "panicked"}

\* C1: for cols > 0, f is invoked once per block handed out and never more
\* than ceil(len / cols) times; when hexdump_buf returns it has been invoked
\* exactly ceil(len / cols) times, the rows' real bytes sum to len, and every
\* row but the last has cols real bytes.
C1_RowCount ==
  (cfg.cols > 0 /\ InHexdumpBuf) =>
    /\ Len(blocks) = Len(rows)
    /\ Len(rows) <= Ceil(Len(buf), cfg.cols)
    /\ \A i \in 1..(Len(rows) - 1) : RealBytes(i) = cfg.cols
    /\ pc = "returned" =>
         /\ Len(rows) = Ceil(Len(buf), cfg.cols)
         /\ Len(Flatten(blocks)) = Len(buf)

C1_Witness ==
  /\ pc = "returned"
  /\ cfg.cols = 2
  /\ Len(buf) = 3
  /\ Len(rows) = 2
  /\ RealBytes(2) = 1

\* C2 (as claimed): for cols > 0 and every base offset, the first row's
\* offset is cfg.offs, and each later row's offset is greater than the one
\* before by that row's number of real bytes.
C2_OffsetsIncrease ==
  (cfg.cols > 0 /\ InHexdumpBuf) =>
    /\ rows # <<>> => rows[1].offs = cfg.offs
    /\ \A i \in 1..(Len(rows) - 1) :
         /\ rows[i + 1].offs > rows[i].offs
         /\ rows[i + 1].offs - rows[i].offs = RealBytes(i)

\* C3: every row's hex field is 3 * cols - 1 characters wide and its ascii
\* field cols characters wide; a row of k < cols real bytes ends with cols - k
\* placeholders, each a separating space and two spaces, in the hex field,
\* and with cols - k spaces in the ascii field.
C3_SameWidth ==
  (cfg.cols > 0 /\ InHexdumpBuf) =>
    /\ \A i, j \in 1..Len(rows) :
         /\ Len(rows[i].hex) = Len(rows[j].hex)
         /\ Len(rows[i].ascii) = Len(rows[j].ascii)
    /\ \A i \in 1..Len(rows) :
         LET k == RealBytes(i)
             C == cfg.cols
         IN /\ Len(rows[i].hex) = 3 * C - 1
            /\ Len(rows[i].ascii) = C
            /\ k >= 1
            /\ \A j \in 1..k : rows[i].hex[3 * j - 2] # " " /\ rows[i].hex[3 * j - 1] # " "
            /\ \A j \in (3 * k)..(3 * C - 1) : rows[i].hex[j] = " "
            /\ \A j \in (k + 1)..C : rows[i].ascii[j] = " "

C3_Witness ==
  /\ pc = "returned"
  /\ cfg.cols = 3
  /\ buf = ExampleData
  /\ Len(rows) = 3
  /\ RealBytes(2) = 3
  /\ RealBytes(3) = 2

\* C4: with cfg.cols = 0, f is never invoked, the loop is never entered and
\* nothing panics, whatever the input.
C4_ZeroCols ==
  cfg.cols = 0 => (rows = <<>> /\ pc \in {"hexdump", "hexdump_buf", "returned"})

C4_Witness ==
  /\ cfg.cols = 0
  /\ pc = "returned"
  /\ Len(buf) = MaxLen

\* C5: with cols > 0 and an empty input, f is never invoked.
C5_EmptyInput ==
  (cfg.cols > 0 /\ InHexdumpBuf /\ buf = <<>>) => rows = <<>>

C5_Witness ==
  /\ entry = "hexdump_buf"
  /\ cfg.cols = DefaultCols
  /\ buf = <<>>
  /\ pc = "returned"

\* C6: the i-th character of a row's ascii field is the i-th real byte's own
\* character when the byte is in 0x20..0x7e, and "." otherwise.
C6_AsciiField ==
  \A i \in 1..Len(rows) :
    \A j \in 1..RealBytes(i) :
      LET byte == blocks[i][j] IN
        rows[i].ascii[j] = IF byte >= 32 /\ byte <= 126 THEN AsciiTable[byte - 31] ELSE "."

C6_Witness ==
  /\ pc = "returned"
  /\ buf = <<31, 32, 126>>
  /\ cfg.cols = 2
  /\ rows[1].ascii = <<".", " ">>
  /\ rows[2].ascii = <<"~", " ">>

\* C7: a row of cols real bytes has a hex field of cols groups of two
\* lowercase hexadecimal digits, the i-th the value of the block's i-th byte,
\* with one space between neighbours and none before or after; the blocks in
\* order, followed by what the iterator has left, are the input.
C7_HexField ==
  (cfg.cols > 0 /\ InHexdumpBuf) =>
    /\ \A i \in 1..Len(rows) :
         RealBytes(i) = cfg.cols =>
           /\ Len(rows[i].hex) = 3 * cfg.cols - 1
           /\ \A j \in 1..cfg.cols :
                LET byte == blocks[i][j] IN
                  /\ rows[i].hex[3 * j - 2] = LowerHexDigits[(byte \div 16) + 1]
                  /\ rows[i].hex[3 * j - 1] = LowerHexDigits[(byte % 16) + 1]
                  /\ j < cfg.cols => rows[i].hex[3 * j] = " "
    /\ pc = "for_block" => Flatten(blocks) \o rest = buf
    /\ pc = "returned" => Flatten(blocks) = buf

C7_Witness ==
  /\ pc = "returned"
  /\ cfg.cols = 2
  /\ buf = <<31, 126, 127>>
  /\ rows[1].hex = <<"1", "f", " ", "7", "e">>

\* The text "01 02 03 04 05 06 07 08".
ExampleHex ==
  << "0", "1", " ", "0", "2", " ", "0", "3", " ", "0", "4", " ",
     "0", "5", " ", "0", "6", " ", "0", "7", " ", "0", "8" >>

ExampleCall ==
  /\ entry = "hexdump_buf"
  /\ buf = ExampleData
  /\ cfg = [cols |-> DefaultCols, offs |-> DefaultOffs]
  /\ pc = "returned"

\* C8 (as claimed): [1..8] with cols = 16 and offs = 0 gives one row, offset
\* 0, whose hex field is "01 02 03 04 05 06 07 08" and 32 spaces and whose
\* ascii field is 8 dots and 8 spaces.
C8_Example32 ==
  ExampleCall =>
    rows = << [offs |-> 0, hex |-> ExampleHex \o [i \in 1..32 |-> " "],
               ascii |-> [i \in 1..8 |-> "."] \o [i \in 1..8 |-> " "]] >>

\* C8 (amended): [1..8] with cols = 16 and offs = 0 gives one row, offset 0,
\* whose hex field is "01 02 03 04 05 06 07 08" and 24 spaces (47 characters)
\* and whose ascii field is 8 dots and 8 spaces.
C8_Example24 ==
  ExampleCall =>
    rows = << [offs |-> 0, hex |-> ExampleHex \o [i \in 1..24 |-> " "],
               ascii |-> [i \in 1..8 |-> "."] \o [i \in 1..8 |-> " "]] >>

C8_Witness ==
  /\ ExampleCall
  /\ Len(rows) = 1
  /\ Len(rows[1].hex) = 47

\* C9 (as claimed): hexdump_buf never panics.
C9_NeverPanics == pc # "panicked"

\* The object's bytes in memory.
ObjectRepr == [i \in 1..obj.size |-> mem[obj.addr + i - 1]]

\* C10: hexdump hands hexdump_buf the size_of bytes of the object, and f is
\* given the rows of hexdump_buf(cfg, those bytes, f): a prefix of them
\* while the loop runs, all of them at the end.
C10_HexdumpIsHexdumpBuf ==
  (entry = "hexdump" /\ pc # "hexdump") =>
    LET call == hexdump_buf_call(cfg, ObjectRepr, overflow_checks) IN
      /\ Len(buf) = obj.size
      /\ buf = ObjectRepr
      /\ Len(rows) <= Len(call.rows)
      /\ rows = SubSeq(call.rows, 1, Len(rows))
      /\ pc \in {"returned", "panicked"} => (rows = call.rows /\ pc = call.pc)

C10_Witness ==
  /\ entry = "hexdump"
  /\ pc = "returned"
  /\ cfg.cols = 2
  /\ obj.size = 3
  /\ Len(rows) = 2

====
